---- MODULE Spec2Model ----
(***************************************************************************)
(* A model of the livestream splitter's pipeline: Splitter.process         *)
(* (src/src/stream_splitter/splitter.py) driving VideoProcessor            *)
(* (src/src/stream_splitter/video_processor.py).                           *)
(*                                                                         *)
(* Durations are rationals counted in ticks of 1/TicksPerSecond second, so *)
(* that int(total / seg) and total % seg of the code are \div and % on     *)
(* ticks.  A path is a record [dir, name] whose name is a sequence of      *)
(* string pieces; two paths are the same file iff the records are equal.   *)
(***************************************************************************)
EXTENDS Integers, Sequences, FiniteSets, TLC

\* ------------------------------------------------------------- bounds
\* The input recording lasts w whole segments plus a remainder, w <= this.
MaxWholeSegments == 2

\* validate_compatibility is given at most this many paths
MaxPaths == 3

\* the job service is sent at most this many split requests
MaxJobs == 2

\* parse_time_string is given every string of at most this many characters
MaxTimeLen == 3

\* format_duration is given every whole number of seconds up to this one
MaxShortDuration == 120

\* sanitize_filename is given every string of at most this many characters
MaxNameLen == 3
\* Resolution of the probed duration (a float in the code).
TicksPerSecond == 2

\* ------------------------------------------------- program constants
MinSegmentLength == 60
MaxSegmentLength == 7200
DefaultSegmentLength == 1200

\* ProcessingConfig: threads in [1, 16], crf in [0, 51]
MinThreads == 1
MaxThreads == 16
DefaultThreads == 4
MinCrf == 0
MaxCrf == 51
DefaultCrf == 23

SegmentLengths == {MinSegmentLength, DefaultSegmentLength, MaxSegmentLength}

\* The remainders (in ticks) tried for a segment length of seg seconds: none,
\* one tick, half a segment, one tick short of a whole segment.
Remainders(seg) ==
  {0, 1, (seg * TicksPerSecond) \div 2, seg * TicksPerSecond - 1}

\* ------------------------------------------------------------ strings
Title == "vid"
Date == "20260101"
IndexToken == "{index:02d}"

Digits == <<"0", "1", "2", "3", "4", "5", "6", "7", "8", "9">>

RECURSIVE Decimal(_)
\* The decimal digits of n >= 0, most significant first.
Decimal(n) ==
  IF n < 10 THEN <<Digits[n + 1]>>
  ELSE Decimal(n \div 10) \o <<Digits[(n % 10) + 1]>>

\* f"{n:02d}": decimal, zero-padded to a width of at least two.
Pad2(n) == IF n < 10 THEN <<"0">> \o Decimal(n) ELSE Decimal(n)

RECURSIVE Replace(_, _, _)
\* s.replace(old, new) on a string held as a sequence of pieces: every piece
\* equal to old becomes the pieces of new.
Replace(s, old, new) ==
  IF s = <<>> THEN <<>>
  ELSE (IF Head(s) = old THEN new ELSE <<Head(s)>>) \o Replace(Tail(s), old, new)

\* ---------------------------------------------------------- templates
\* A naming template as Python's format-string parser reads it: literal text
\* (a doubled brace "{{x}}" is the literal "{x}") and replacement fields
\* {name:spec}.
Lit(text) == [kind |-> "lit", text |-> text]
Field(name, spec) == [kind |-> "field", name |-> name, spec |-> spec]

\* '{title}_part{index:02d}_{date}', the default of OutputConfig and the CLI.
DefaultNamingPattern ==
  <<Field("title", ""), Lit("_part"), Field("index", "02d"), Lit("_"),
    Field("date", "")>>
\* '{title}_part{{index:02d}}_{date}'
EscapedNamingPattern ==
  <<Field("title", ""), Lit("_part"), Lit(IndexToken), Lit("_"),
    Field("date", "")>>
\* '{title}_part{index}_{date}'
PlainIndexNamingPattern ==
  <<Field("title", ""), Lit("_part"), Field("index", ""), Lit("_"),
    Field("date", "")>>
\* '{title}_{date}'
NoIndexNamingPattern == <<Field("title", ""), Lit("_"), Field("date", "")>>

\* naming_pattern is a free string: any of these is accepted by OutputConfig.
NamingPatterns ==
  {DefaultNamingPattern, EscapedNamingPattern, PlainIndexNamingPattern,
   NoIndexNamingPattern}

FormatError == "ValueError: Unknown format code 'd' for object of type 'str'"

\* The keyword arguments of naming_pattern.format(...): all three are strings.
FormatArgs == [title |-> Title, date |-> Date, index |-> "{index}"]

\* An integer presentation type applied to a str argument raises ValueError.
FieldRaises(tok) == tok.kind = "field" /\ tok.spec = "02d"

RECURSIVE FormatPieces(_)
FormatPieces(tpl) ==
  IF tpl = <<>> THEN <<>>
  ELSE LET tok == Head(tpl)
       IN  <<IF tok.kind = "lit" THEN tok.text ELSE FormatArgs[tok.name]>>
             \o FormatPieces(Tail(tpl))

\* str.format on a template: the formatted pieces, or the error it raises.
Format(tpl) ==
  IF \E k \in DOMAIN tpl : FieldRaises(tpl[k])
  THEN [ok |-> FALSE, pieces |-> <<>>]
  ELSE [ok |-> TRUE, pieces |-> FormatPieces(tpl)]

\* -------------------------------------------------------------- paths
OutputDirectory == "segments"
InputPath == [dir |-> "uploads", name |-> <<Title, ".", "mp4">>]
IntroPath == [dir |-> "clips", name |-> <<"intro", ".", "mp4">>]
OutroPath == [dir |-> "clips", name |-> <<"outro", ".", "mp4">>]
NoPath == [dir |-> "", name |-> <<>>]

\* Splitter._generate_output_pattern, given a template that formats.
GenerateOutputPattern(tpl, fmt) ==
  [dir |-> OutputDirectory, name |-> Format(tpl).pieces \o <<".", fmt>>]

\* output_pattern.replace("{index:02d}", f"{i+1:02d}") for loop index i (0-based).
SegmentPath(pattern, i) ==
  [dir |-> pattern.dir, name |-> Replace(pattern.name, IndexToken, Pad2(i + 1))]

\* segment_file.parent / f"final_{segment_file.name}"
FinalPath(segment_file) ==
  [dir |-> segment_file.dir, name |-> <<"final_">> \o segment_file.name]

\* Splitter.generate_report: directory / "processing_report.txt"
ReportPath == [dir |-> OutputDirectory, name |-> <<"processing_report.txt">>]

\* video_path.parent / "concat_list.txt"
ListFile(video_path) == [dir |-> video_path.dir, name |-> <<"concat_list.txt">>]

\* -------------------------------------------------------------- media
\* What ffmpeg.probe reports of a file, as far as get_video_info keeps it.
\* ok = FALSE stands for the exception get_video_info re-raises.
BaseInfo == [ok |-> TRUE, width |-> 1280, height |-> 720, codec |-> "h264"]
OtherResolution == [ok |-> TRUE, width |-> 1920, height |-> 1080, codec |-> "h264"]
OtherCodec == [ok |-> TRUE, width |-> 1280, height |-> 720, codec |-> "hevc"]
ProbeError == [ok |-> FALSE, width |-> 0, height |-> 0, codec |-> ""]

Clips == {InputPath, IntroPath, OutroPath}

VARIABLES
  cfg,             \* the Config of the run (never changes)
  duration,        \* the input recording's duration, in ticks
  media,           \* path -> what probing the file yields
  disk,            \* the paths that exist
  pc,              \* where Splitter.process stands
  num_segments,    \* Splitter.process: num_segments
  output_pattern,  \* Splitter.process: output_pattern
  split_count,     \* VideoProcessor.split_video: num_segments
  i,               \* the loop index of split_video / of the stitch loop
  transcodes,      \* every transcoder invocation made, in order
  output_files,    \* VideoProcessor.split_video: output_files
  segment_files,   \* what split_video returned to Splitter.process
  processed_files, \* Splitter._add_intro_outro_to_segments: processed_files
  concats,         \* every playlist written and concat invocation made
  unlinks,         \* every segment_file.unlink() attempted
  result,          \* what Splitter.process returned
  error,           \* the exception that left Splitter.process
  jobs,            \* web backend: jobs, job id -> JobStatus record
  job_counter,     \* web backend: job_counter
  tasks,           \* web backend: the background tasks added and not yet run
  call,            \* the function or request handler being applied, with its arguments
  ret              \* what that call returned or raised

\* the state of the job service and of single calls, which a run of
\* Splitter.process leaves alone
outside_pipeline == <<jobs, job_counter, tasks, call, ret>>

\* the state of one run of Splitter.process, the files excepted
run_state ==
  <<cfg, duration, pc, num_segments, output_pattern, split_count, i,
    transcodes, output_files, segment_files, processed_files, concats,
    unlinks, result, error>>

vars == <<run_state, media, disk, outside_pipeline>>

\* ------------------------------------------------------ pure helpers
SegTicks(seg) == seg * TicksPerSecond

\* splitter.py: int(total / max) + (1 if total % max > 0 else 0)
ProcessNumSegments(total, seg) ==
  (total \div SegTicks(seg)) + (IF total % SegTicks(seg) > 0 THEN 1 ELSE 0)

\* a count that adds the trailing segment whether or not there is a remainder
SplitNumSegmentsAlwaysExtra(total, seg) == (total \div SegTicks(seg)) + 1

\* video_processor.py: the same count, computed again by split_video
SplitNumSegments(total, seg) ==
  (total \div SegTicks(seg)) + (IF total % SegTicks(seg) > 0 THEN 1 ELSE 0)

\* a start computed from the 1-based segment number
StartTimeOneBased(k, seg) == (k + 1) * seg

\* start_time = i * segment_duration (seconds)
StartTime(k, seg) == k * seg

\* the t= argument of ffmpeg.input: the segment duration, for every window
RequestedDuration(k, seg, total) == seg

\* get_video_info: the descriptor, or the error it re-raises
GetVideoInfo(path) == media[path]

\* validate_compatibility, the list comprehension: the paths that exist are
\* probed in order, up to the first probe that raises
RECURSIVE ProbedPaths(_)
ProbedPaths(paths) ==
  IF paths = <<>> THEN <<>>
  ELSE IF Head(paths) \notin disk THEN ProbedPaths(Tail(paths))
       ELSE IF ~GetVideoInfo(Head(paths)).ok THEN <<Head(paths)>>
            ELSE <<Head(paths)>> \o ProbedPaths(Tail(paths))

\* validate_compatibility: resolutions
Resolutions(infos) == {<<d.width, d.height>> : d \in infos}

\* a check that takes every codec for the same
CodecsUnchecked(infos) == {}

\* validate_compatibility: codecs
Codecs(infos) == {d.codec : d \in infos}

\* an except clause that raises again
CompatibilityReraise(probed) ==
  [returned |-> FALSE, raised |-> TRUE, probed |-> probed]

\* validate_compatibility: "except Exception: ... return False"
CompatibilityExcept(probed) ==
  [returned |-> FALSE, raised |-> FALSE, probed |-> probed]

\* VideoProcessor.validate_compatibility(*video_paths): what it returns,
\* whether an exception leaves it, and the paths it probed
CompatibilityCall(paths) ==
  IF Len(paths) < 2
  THEN [returned |-> TRUE, raised |-> FALSE, probed |-> <<>>]
  ELSE LET probed == ProbedPaths(paths)
           infos == {GetVideoInfo(probed[k]) : k \in DOMAIN probed}
           Return(v) == [returned |-> v, raised |-> FALSE, probed |-> probed]
       IN  IF \E d \in infos : ~d.ok THEN CompatibilityExcept(probed)
           ELSE IF Cardinality(Resolutions(infos)) > 1 THEN Return(FALSE)
                ELSE IF Cardinality(Codecs(infos)) > 1 THEN Return(FALSE)
                     ELSE Return(TRUE)

\* validate_compatibility as Splitter._validate_inputs uses it
ValidateCompatibility(paths) ==
  LET r == CompatibilityCall(paths) IN ~r.raised /\ r.returned

\* Splitter._validate_inputs: files_to_check
FilesToCheck ==
  <<cfg.input_path>>
    \o (IF cfg.intro_path # NoPath THEN <<cfg.intro_path>> ELSE <<>>)
    \o (IF cfg.outro_path # NoPath THEN <<cfg.outro_path>> ELSE <<>>)

\* a validation that checks only that the files exist
ValidateInputsExistenceOnly ==
  \A k \in DOMAIN FilesToCheck : FilesToCheck[k] \in disk

\* Splitter._validate_inputs
ValidateInputs ==
  IF \E k \in DOMAIN FilesToCheck : FilesToCheck[k] \notin disk THEN FALSE
  ELSE IF Len(FilesToCheck) > 1 /\ ~ValidateCompatibility(FilesToCheck)
       THEN FALSE
       ELSE TRUE

\* a stage that is entered whatever is configured
StageAlways == TRUE

\* Splitter.process: "if intro_path or outro_path" guards the stitching stage
StageConfigured == cfg.intro_path # NoPath \/ cfg.outro_path # NoPath

\* add_intro_outro: "if not intro_path and not outro_path: return video_path"
NothingToAdd(intro_path, outro_path) == intro_path = NoPath /\ outro_path = NoPath

\* add_intro_outro: concat_files
ConcatFiles(video_path, intro_path, outro_path) ==
  (IF intro_path # NoPath /\ intro_path \in disk THEN <<intro_path>> ELSE <<>>)
    \o <<video_path>>
    \o (IF outro_path # NoPath /\ outro_path \in disk THEN <<outro_path>> ELSE <<>>)

\* no job was created, no background task is waiting
ServiceIdle == jobs = <<>> /\ job_counter = 0 /\ tasks = {}

\* no run of Splitter.process is under way
RunIdle ==
  /\ cfg = [input_path |-> NoPath] /\ duration = 0 /\ pc = "idle"
  /\ num_segments = 0 /\ output_pattern = NoPath /\ split_count = 0 /\ i = 0
  /\ transcodes = <<>> /\ output_files = <<>> /\ segment_files = <<>>
  /\ processed_files = <<>> /\ concats = <<>> /\ unlinks = <<>>
  /\ result = <<>> /\ error = ""

\* no single call is being applied
NoCall == call = [fn |-> "none"] /\ ret = [done |-> FALSE]

\* ---------------------------------------------------------------- Init
\* A Config that OutputConfig accepted, and the files as they are when
\* process() starts: a configured clip existed when the Config was built and
\* may have been removed since.
ClipInfos == {BaseInfo, OtherResolution, OtherCodec, ProbeError}

Init ==
  \E seg \in SegmentLengths, w \in 0 .. MaxWholeSegments,
     tpl \in NamingPatterns,
     intro \in {NoPath, IntroPath}, outro \in {NoPath, OutroPath},
     introThere \in BOOLEAN, outroThere \in BOOLEAN,
     inputInfo \in {BaseInfo, ProbeError},
     introInfo \in ClipInfos, outroInfo \in ClipInfos :
    \E r \in Remainders(seg) :
      /\ w * SegTicks(seg) + r > 0
      /\ (intro = NoPath \/ ~introThere) => introInfo = BaseInfo
      /\ (outro = NoPath \/ ~outroThere) => outroInfo = BaseInfo
      /\ intro = NoPath => ~introThere
      /\ outro = NoPath => ~outroThere
      /\ cfg = [input_path |-> InputPath, max_segment_length |-> seg,
                naming_pattern |-> tpl, format |-> "mp4",
                intro_path |-> intro, outro_path |-> outro]
      /\ duration = w * SegTicks(seg) + r
      /\ media = [p \in Clips |->
                   IF p = InputPath THEN inputInfo
                   ELSE IF p = IntroPath THEN introInfo ELSE outroInfo]
      /\ disk = {InputPath} \cup (IF introThere THEN {IntroPath} ELSE {})
                  \cup (IF outroThere THEN {OutroPath} ELSE {})
      /\ pc = "validate"
      /\ num_segments = 0
      /\ output_pattern = NoPath
      /\ split_count = 0
      /\ i = 0
      /\ transcodes = <<>>
      /\ output_files = <<>>
      /\ segment_files = <<>>
      /\ processed_files = <<>>
      /\ concats = <<>>
      /\ unlinks = <<>>
      /\ result = <<>>
      /\ error = ""
      /\ ServiceIdle
      /\ NoCall

\* --------------------------------------------------- Splitter.process
TranscodeError == "ffmpeg.Error: transcode"

Raise(e) == pc' = "failed" /\ error' = e

\* process: "if not self._validate_inputs(): raise ValueError(...)"
ValidateFail ==
  /\ pc = "validate"
  /\ ~ValidateInputs
  /\ Raise("Input validation failed")
  /\ UNCHANGED <<cfg, duration, media, disk, num_segments, output_pattern,
                 split_count, i, transcodes, output_files, segment_files,
                 processed_files, concats, unlinks, result>>
  /\ UNCHANGED outside_pipeline

ValidateOk ==
  /\ pc = "validate"
  /\ ValidateInputs
  /\ pc' = "plan"
  /\ UNCHANGED <<cfg, duration, media, disk, num_segments, output_pattern,
                 split_count, i, transcodes, output_files, segment_files,
                 processed_files, concats, unlinks, result, error>>
  /\ UNCHANGED outside_pipeline

\* process: get_video_info(input_path) raises
PlanProbeFail ==
  /\ pc = "plan"
  /\ ~GetVideoInfo(cfg.input_path).ok
  /\ Raise("ProbeError")
  /\ UNCHANGED <<cfg, duration, media, disk, num_segments, output_pattern,
                 split_count, i, transcodes, output_files, segment_files,
                 processed_files, concats, unlinks, result>>
  /\ UNCHANGED outside_pipeline

\* process: the count is computed, then _generate_output_pattern raises
PlanFormatFail ==
  /\ pc = "plan"
  /\ GetVideoInfo(cfg.input_path).ok
  /\ ~Format(cfg.naming_pattern).ok
  /\ num_segments' = ProcessNumSegments(duration, cfg.max_segment_length)
  /\ Raise(FormatError)
  /\ UNCHANGED <<cfg, duration, media, disk, output_pattern, split_count, i,
                 transcodes, output_files, segment_files, processed_files,
                 concats, unlinks, result>>
  /\ UNCHANGED outside_pipeline

\* process: probe, count, pattern; then split_video is entered
PlanOk ==
  /\ pc = "plan"
  /\ GetVideoInfo(cfg.input_path).ok
  /\ Format(cfg.naming_pattern).ok
  /\ num_segments' = ProcessNumSegments(duration, cfg.max_segment_length)
  /\ output_pattern' = GenerateOutputPattern(cfg.naming_pattern, cfg.format)
  /\ pc' = "split"
  /\ UNCHANGED <<cfg, duration, media, disk, split_count, i, transcodes,
                 output_files, segment_files, processed_files, concats,
                 unlinks, result, error>>
  /\ UNCHANGED outside_pipeline

\* ------------------------------------------ VideoProcessor.split_video
\* split_video: probes the input again and computes its own count
SplitVideoBegin ==
  /\ pc = "split"
  /\ split_count' = SplitNumSegments(duration, cfg.max_segment_length)
  /\ i' = 0
  /\ output_files' = <<>>
  /\ pc' = "transcode"
  /\ UNCHANGED <<cfg, duration, media, disk, num_segments, output_pattern,
                 transcodes, segment_files, processed_files, concats, unlinks,
                 result, error>>
  /\ UNCHANGED outside_pipeline

\* The ffmpeg invocation of loop index k: input(ss=, t=) and the output path,
\* logged with whether ffmpeg.run returned (ok) or raised ffmpeg.Error.
Invocation(k, ok) ==
  [index |-> k + 1,
   ok |-> ok,
   ss |-> StartTime(k, cfg.max_segment_length),
   t |-> RequestedDuration(k, cfg.max_segment_length, duration),
   path |-> SegmentPath(output_pattern, k)]

\* where the loop of split_video goes after the body ran for index k
NextIndex(k) == k + 1

\* ffmpeg.run succeeded: the output path is written, the path is collected
TranscodeOk ==
  /\ pc = "transcode"
  /\ i < split_count
  /\ transcodes' = Append(transcodes, Invocation(i, TRUE))
  /\ disk' = disk \cup {Invocation(i, TRUE).path}
  /\ output_files' = Append(output_files, Invocation(i, TRUE).path)
  /\ i' = NextIndex(i)
  /\ UNCHANGED <<cfg, duration, media, pc, num_segments, output_pattern,
                 split_count, segment_files, processed_files, concats, unlinks,
                 result>>
  /\ UNCHANGED error
  /\ UNCHANGED outside_pipeline

\* an error handler that logs and goes on to the next window
TranscodeFailSwallowed ==
  /\ pc = "transcode"
  /\ i < split_count
  /\ transcodes' = Append(transcodes, Invocation(i, FALSE))
  /\ i' = i + 1
  /\ UNCHANGED <<cfg, duration, media, disk, pc, num_segments, output_pattern,
                 split_count, output_files, segment_files, processed_files,
                 concats, unlinks, result, error>>
  /\ UNCHANGED outside_pipeline

\* an error handler that runs the same window again
TranscodeFailRetried ==
  /\ pc = "transcode"
  /\ i < split_count
  /\ transcodes' = Append(transcodes, Invocation(i, FALSE))
  /\ UNCHANGED <<cfg, duration, media, disk, pc, num_segments, output_pattern,
                 split_count, i, output_files, segment_files, processed_files,
                 concats, unlinks, result, error>>
  /\ UNCHANGED outside_pipeline

\* ffmpeg.run raised ffmpeg.Error: logged and re-raised through
\* _split_with_progress and process.  ffmpeg may have left a partial output.
TranscodeFail ==
  /\ pc = "transcode"
  /\ i < split_count
  /\ transcodes' = Append(transcodes, Invocation(i, FALSE))
  /\ \E partial \in BOOLEAN :
       disk' = IF partial THEN disk \cup {Invocation(i, FALSE).path} ELSE disk
  /\ Raise(TranscodeError)
  /\ UNCHANGED <<cfg, duration, media, num_segments, output_pattern,
                 split_count, i, output_files, segment_files, processed_files,
                 concats, unlinks, result>>
  /\ UNCHANGED outside_pipeline

\* split_video returns output_files; process goes on to the stitching stage,
\* or returns the list as it is
SplitVideoReturn ==
  /\ pc = "transcode"
  /\ i >= split_count
  /\ segment_files' = output_files
  /\ i' = 0
  /\ IF StageConfigured
     THEN pc' = "stitch" /\ UNCHANGED result
     ELSE pc' = "done" /\ result' = output_files
  /\ UNCHANGED <<cfg, duration, media, disk, num_segments, output_pattern,
                 split_count, transcodes, output_files, processed_files,
                 concats, unlinks, error>>
  /\ UNCHANGED outside_pipeline

\* ----------------------------- Splitter._add_intro_outro_to_segments
\* add_intro_outro is entered for segment_files[i+1]: it returns the segment
\* at once when there is nothing to add, else writes the playlist
AddIntroOutroBegin ==
  /\ pc = "stitch"
  /\ i < Len(segment_files)
  /\ LET video_path == segment_files[i + 1]
     IN  IF NothingToAdd(cfg.intro_path, cfg.outro_path)
         THEN /\ processed_files' = Append(processed_files, video_path)
              /\ pc' = "unlink"
              /\ UNCHANGED <<disk, concats>>
         ELSE /\ concats' =
                   Append(concats,
                          [index |-> i + 1,
                           files |-> ConcatFiles(video_path, cfg.intro_path,
                                                 cfg.outro_path),
                           list_file |-> ListFile(video_path),
                           output |-> FinalPath(video_path),
                           outcome |-> "running"])
              /\ disk' = disk \cup {ListFile(video_path)}
              /\ pc' = "concat"
              /\ UNCHANGED processed_files
  /\ UNCHANGED <<cfg, duration, media, num_segments, output_pattern,
                 split_count, i, transcodes, output_files, segment_files,
                 unlinks, result, error>>
  /\ UNCHANGED outside_pipeline

SetOutcome(o) ==
  [concats EXCEPT ![Len(concats)] = [@ EXCEPT !.outcome = o]]

\* ffmpeg.run succeeded: the stitched file is written, the playlist removed,
\* the stitched path collected
ConcatOk ==
  /\ pc = "concat"
  /\ LET c == concats[Len(concats)]
     IN  /\ disk' = (disk \cup {c.output}) \ {c.list_file}
         /\ processed_files' = Append(processed_files, c.output)
  /\ concats' = SetOutcome("ok")
  /\ pc' = "unlink"
  /\ UNCHANGED <<cfg, duration, media, num_segments, output_pattern,
                 split_count, i, transcodes, output_files, segment_files,
                 unlinks, result, error>>
  /\ UNCHANGED outside_pipeline

\* ffmpeg.run raised ffmpeg.Error, and the handler forgets the playlist
ConcatFailKeepsPlaylist ==
  /\ pc = "concat"
  /\ processed_files' = Append(processed_files, segment_files[i + 1])
  /\ concats' = SetOutcome("failed")
  /\ i' = i + 1
  /\ pc' = "stitch"
  /\ UNCHANGED <<cfg, duration, media, disk, num_segments, output_pattern,
                 split_count, transcodes, output_files, segment_files,
                 unlinks, result, error>>
  /\ UNCHANGED outside_pipeline

\* ffmpeg.run raised ffmpeg.Error: the playlist is removed and the error
\* re-raised; the stage catches it and keeps the original segment
ConcatFail ==
  /\ pc = "concat"
  /\ LET c == concats[Len(concats)]
     IN  /\ \E partial \in BOOLEAN :
              disk' = (IF partial THEN disk \cup {c.output} ELSE disk)
                        \ {c.list_file}
         /\ processed_files' = Append(processed_files, segment_files[i + 1])
  /\ concats' = SetOutcome("failed")
  /\ i' = i + 1
  /\ pc' = "stitch"
  /\ UNCHANGED <<cfg, duration, media, num_segments, output_pattern,
                 split_count, transcodes, output_files, segment_files,
                 unlinks, result, error>>
  /\ UNCHANGED outside_pipeline

\* segment_file.unlink() succeeded
UnlinkOk ==
  /\ pc = "unlink"
  /\ segment_files[i + 1] \in disk
  /\ disk' = disk \ {segment_files[i + 1]}
  /\ unlinks' = Append(unlinks, [index |-> i + 1, path |-> segment_files[i + 1],
                                 ok |-> TRUE])
  /\ i' = i + 1
  /\ pc' = "stitch"
  /\ UNCHANGED <<cfg, duration, media, num_segments, output_pattern,
                 split_count, transcodes, output_files, segment_files,
                 processed_files, concats, result, error>>
  /\ UNCHANGED outside_pipeline

\* segment_file.unlink() raised (the file is gone, or the system refuses):
\* the stage's "except Exception" appends the original segment as well
UnlinkFail ==
  /\ pc = "unlink"
  /\ unlinks' = Append(unlinks, [index |-> i + 1, path |-> segment_files[i + 1],
                                 ok |-> FALSE])
  /\ processed_files' = Append(processed_files, segment_files[i + 1])
  /\ i' = i + 1
  /\ pc' = "stitch"
  /\ UNCHANGED <<cfg, duration, media, disk, num_segments, output_pattern,
                 split_count, transcodes, output_files, segment_files,
                 concats, result, error>>
  /\ UNCHANGED outside_pipeline

\* the stage returns processed_files, and process returns it
StageReturn ==
  /\ pc = "stitch"
  /\ i >= Len(segment_files)
  /\ result' = processed_files
  /\ pc' = "done"
  /\ UNCHANGED <<cfg, duration, media, disk, num_segments, output_pattern,
                 split_count, i, transcodes, output_files, segment_files,
                 processed_files, concats, unlinks, error>>
  /\ UNCHANGED outside_pipeline

\* a report that is written however process ended
GenerateReportAlways ==
  /\ pc \in {"done", "failed"}
  /\ disk' = disk \cup {ReportPath}
  /\ pc' = "reported"
  /\ UNCHANGED <<cfg, duration, media, num_segments, output_pattern,
                 split_count, i, transcodes, output_files, segment_files,
                 processed_files, concats, unlinks, result, error>>
  /\ UNCHANGED outside_pipeline

\* cli.main: process returned, and the report of the run is written
GenerateReport ==
  /\ pc = "done"
  /\ disk' = disk \cup {ReportPath}
  /\ pc' = "reported"
  /\ UNCHANGED <<cfg, duration, media, num_segments, output_pattern,
                 split_count, i, transcodes, output_files, segment_files,
                 processed_files, concats, unlinks, result, error>>
  /\ UNCHANGED outside_pipeline

Next ==
  \/ ValidateFail
  \/ ValidateOk
  \/ PlanProbeFail
  \/ PlanFormatFail
  \/ PlanOk
  \/ SplitVideoBegin
  \/ TranscodeOk
  \/ TranscodeFail
  \/ SplitVideoReturn
  \/ AddIntroOutroBegin
  \/ ConcatOk
  \/ ConcatFail
  \/ UnlinkOk
  \/ UnlinkFail
  \/ StageReturn
  \/ GenerateReport

Spec == Init /\ [][Next]_vars

\* ============================================ validate_compatibility
\* VideoProcessor.validate_compatibility called on its own: any paths, any
\* of them missing, any descriptor or probe error behind each.
SeqsUpTo(S, n) == UNION {[1 .. m -> S] : m \in 0 .. n}

InitCompat ==
  /\ RunIdle
  /\ ServiceIdle
  /\ disk \in SUBSET Clips
  /\ media \in [Clips -> ClipInfos]
  /\ call \in {[fn |-> "validate_compatibility", paths |-> ps] :
                 ps \in SeqsUpTo(Clips, MaxPaths)}
  /\ ret = [done |-> FALSE]

\* the call returns, or raises
CallValidateCompatibility ==
  /\ call.fn = "validate_compatibility"
  /\ ~ret.done
  /\ LET r == CompatibilityCall(call.paths)
     IN  ret' = [done |-> TRUE, returned |-> r.returned, raised |-> r.raised,
                 probed |-> r.probed]
  /\ UNCHANGED <<run_state, media, disk, jobs, job_counter, tasks, call>>

NextCompat == CallValidateCompatibility

SpecCompat == InitCompat /\ [][NextCompat]_vars

\* ============================================================ Config
\* config.py: what constructing the pydantic models does with the bounded
\* fields: the validated model, or the ValidationError raised.
ValidationError(msg) == [ok |-> FALSE, error |-> msg]

\* a validator that lets the upper bound slip by one
ValidateSegmentLengthOffByOne(v) ==
  IF v < MinSegmentLength
  THEN ValidationError("Segment length must be at least 60 seconds")
  ELSE IF v > MaxSegmentLength + 1
       THEN ValidationError("Segment length cannot exceed 2 hours (7200 seconds)")
       ELSE [ok |-> TRUE, value |-> v]

\* OutputConfig.validate_segment_length
ValidateSegmentLength(v) ==
  IF v < MinSegmentLength
  THEN ValidationError("Segment length must be at least 60 seconds")
  ELSE IF v > MaxSegmentLength
       THEN ValidationError("Segment length cannot exceed 2 hours (7200 seconds)")
       ELSE [ok |-> TRUE, value |-> v]

\* OutputConfig(max_segment_length = v), the other fields at their defaults
OutputConfig(v) ==
  LET r == ValidateSegmentLength(v)
  IN  IF r.ok THEN [ok |-> TRUE, max_segment_length |-> r.value] ELSE r

\* ProcessingConfig(threads = t, crf = c): Field(ge = .., le = ..)
ProcessingConfig(t, c) ==
  IF ~(t >= MinThreads /\ t <= MaxThreads)
  THEN ValidationError("threads")
  ELSE IF ~(c >= MinCrf /\ c <= MaxCrf)
       THEN ValidationError("crf")
       ELSE [ok |-> TRUE, threads |-> t, crf |-> c]

\* Config.validate_input: the input must exist (a file, of a known suffix)
ValidateInput(exists) ==
  IF ~exists THEN ValidationError("Input file not found")
  ELSE [ok |-> TRUE]

\* cli.main / process_video: OutputConfig(...), ProcessingConfig(...), then
\* Config(input_path, output, processing); the first error raised wins
ConstructConfig(exists, v, t, c) ==
  LET out == OutputConfig(v)
      processing == ProcessingConfig(t, c)
      input == ValidateInput(exists)
  IN  IF ~out.ok THEN out
      ELSE IF ~processing.ok THEN processing
           ELSE IF ~input.ok THEN input
                ELSE [ok |-> TRUE,
                      max_segment_length |-> out.max_segment_length,
                      threads |-> processing.threads, crf |-> processing.crf]

\* the values tried for each bounded field: the bounds, one beyond each, and
\* the default
Around(lo, mid, hi) == {lo - 1, lo, mid, hi, hi + 1}

\* the recording planned for in SpecConfig, in ticks
PlannedDuration == SegTicks(MaxSegmentLength) + 1

InitConfig ==
  /\ RunIdle
  /\ ServiceIdle
  /\ disk = {} /\ media = <<>>
  /\ call \in {[fn |-> "Config", input_exists |-> e, max_segment_length |-> v,
                  threads |-> t, crf |-> c] :
                 e \in BOOLEAN,
                 v \in Around(MinSegmentLength, DefaultSegmentLength,
                              MaxSegmentLength),
                 t \in Around(MinThreads, DefaultThreads, MaxThreads),
                 c \in Around(MinCrf, DefaultCrf, MaxCrf)}
  /\ ret = [done |-> FALSE]

\* the configuration is constructed, or the ValidationError raised
CallConfig ==
  /\ call.fn = "Config"
  /\ ~ret.done
  /\ ret' = [done |-> TRUE, planned |-> FALSE, num_segments |-> 0,
             config |-> ConstructConfig(call.input_exists,
                                        call.max_segment_length,
                                        call.threads, call.crf)]
  /\ UNCHANGED <<run_state, media, disk, jobs, job_counter, tasks, call>>

\* Splitter(cfg).process(): the planner runs on the constructed configuration
PlanWithConfig ==
  /\ call.fn = "Config"
  /\ ret.done /\ ret.config.ok /\ ~ret.planned
  /\ ret' = [ret EXCEPT !.planned = TRUE,
                        !.num_segments =
                          ProcessNumSegments(PlannedDuration,
                                             ret.config.max_segment_length)]
  /\ UNCHANGED <<run_state, media, disk, jobs, job_counter, tasks, call>>

NextConfig == CallConfig \/ PlanWithConfig

SpecConfig == InitConfig /\ [][NextConfig]_vars

\* ======================================================= web backend
\* web/backend/main.py: the job map, the request handlers and the background
\* task process_video. Every handler is a coroutine on one event loop;
\* process_video awaits nothing, so from its first statement to its last no
\* other handler runs.

\* datetime.now().isoformat()
Now == "2026-01-01T00:00:00"

\* an Optional[str]: None, or a string
None == <<>>
Some(x) == <<x>>

Pending == "pending"
Processing == "processing"
Completed == "completed"
Failed == "failed"

\* a job record that starts half done
NewJobHalfDone(job_id) ==
  [id |-> job_id, status |-> Pending, progress |-> 50,
   message |-> <<"Initializing video splitting...">>, created_at |-> Now,
   completed_at |-> None, output_files |-> <<>>, error |-> None]

\* split_video: JobStatus(id, status = "pending", message, created_at)
NewJob(job_id) ==
  [id |-> job_id, status |-> Pending, progress |-> 0,
   message |-> <<"Initializing video splitting...">>, created_at |-> Now,
   completed_at |-> None, output_files |-> <<>>, error |-> None]

\* the uploads directory holds one recording
UploadName == InputPath.name
MissingName == <<"gone", ".", "mp4">>
UploadPath(filename) == [dir |-> <<"uploads">>, name |-> filename]

\* Path("outputs") / str(job_id)
OutputDir(job_id) == <<"outputs">> \o Decimal(job_id)
LogFile(job_id) == [dir |-> OutputDir(job_id), name |-> <<"splitter.log">>]

\* SplitRequest
SplitRequest(v, tpl) ==
  [max_length |-> v, naming_pattern |-> tpl, format |-> "mp4"]

\* the split requests sent: the default body, bodies with other naming
\* patterns, one with a max_length below the minimum, and the default body
\* for a file that was never uploaded
SplitCalls ==
  {[filename |-> UploadName, request |-> r] :
     r \in {SplitRequest(DefaultSegmentLength, DefaultNamingPattern),
            SplitRequest(DefaultSegmentLength, EscapedNamingPattern),
            SplitRequest(DefaultSegmentLength, NoIndexNamingPattern),
            SplitRequest(MinSegmentLength - 1, EscapedNamingPattern)}}
    \cup {[filename |-> MissingName,
           request |-> SplitRequest(DefaultSegmentLength, DefaultNamingPattern)]}

\* the durations (in ticks) probing the upload may report: one segment, or
\* one segment and a tick
JobDurations(seg) == {SegTicks(seg), SegTicks(seg) + 1}

\* the path of segment k (0-based) of a job
JobSegmentPath(job_id, request, k) ==
  [dir |-> OutputDir(job_id),
   name |-> SegmentPath(GenerateOutputPattern(request.naming_pattern,
                                              request.format), k).name]

\* the event loop is not inside a process_video call
LoopFree == \A t \in tasks : t.pc = "queued"

\* a task that is put back when it has run
FinishRequeue(t) == (tasks \ {t}) \cup {[t EXCEPT !.pc = "queued"]}

\* process_video returned: the background task is over
Finish(t) == tasks \ {t}

\* an update that sets the status and leaves the other fields for later
SetCompletedStatusOnly(job, files) == [job EXCEPT !.status = Completed]

\* process_video, lines 210-214
SetCompleted(job, files) ==
  [job EXCEPT !.status = Completed,
              !.progress = 100,
              !.message = <<"Successfully created ">> \o Decimal(Len(files))
                            \o <<" segments">>,
              !.completed_at = Some(Now),
              !.output_files = [k \in DOMAIN files |-> files[k].name]]

\* an except clause that reports the error and leaves the status as it was
SetFailedMessageOnly(job, e) ==
  [job EXCEPT !.error = Some(e), !.message = <<"Error: ", e>>]

\* process_video, the except clause
SetFailed(job, e) ==
  [job EXCEPT !.status = Failed,
              !.error = Some(e),
              !.message = <<"Error: ", e>>,
              !.completed_at = Some(Now)]

InitJobs ==
  /\ RunIdle
  /\ ServiceIdle
  /\ NoCall
  /\ disk = {UploadPath(UploadName)}
  /\ media \in [{UploadPath(UploadName)} -> {BaseInfo, ProbeError}]

Response(code, detail, body) ==
  [done |-> TRUE, status_code |-> code, detail |-> detail, body |-> body]

\* POST /api/split
SplitVideo ==
  /\ LoopFree
  /\ job_counter < MaxJobs
  /\ \E c \in SplitCalls :
       LET job_id == job_counter + 1
           filename == c.filename
           request == c.request
       IN  /\ job_counter' = job_id
           /\ jobs' = [j \in DOMAIN jobs \cup {job_id} |->
                        IF j = job_id THEN NewJob(job_id) ELSE jobs[j]]
           /\ tasks' = tasks \cup {[job_id |-> job_id, filename |-> filename,
                                     request |-> request, pc |-> "queued"]}
           /\ call' = [fn |-> "split_video", filename |-> filename,
                       request |-> request]
           /\ ret' = Response(200, "", [job_id |-> job_id, status |-> "started"])
  /\ UNCHANGED <<run_state, media, disk>>

\* GET /api/jobs/{job_id}
GetJobStatus ==
  /\ LoopFree
  /\ \E job_id \in 0 .. MaxJobs + 1 :
       /\ call' = [fn |-> "get_job_status", job_id |-> job_id]
       /\ ret' = IF job_id \notin DOMAIN jobs
                 THEN Response(404, "Job not found", <<>>)
                 ELSE Response(200, "", jobs[job_id])
  /\ UNCHANGED <<run_state, media, disk, jobs, job_counter, tasks>>

\* GET /api/jobs
ListJobs ==
  /\ LoopFree
  /\ call' = [fn |-> "list_jobs"]
  /\ ret' = Response(200, "", [k \in 1 .. job_counter |-> jobs[k]])
  /\ UNCHANGED <<run_state, media, disk, jobs, job_counter, tasks>>

\* a listing that lets every name through
ListedAlways(job, filename) == TRUE

\* download_file: filename in job.output_files
Listed(job, filename) ==
  \E k \in DOMAIN job.output_files : job.output_files[k] = filename

\* the names asked for: those of the files under outputs, and one of no file
DownloadNames ==
  {f.name : f \in disk \ {UploadPath(UploadName)}} \cup {MissingName}

\* GET /api/download/{job_id}/{filename}
DownloadFile ==
  /\ LoopFree
  /\ \E job_id \in 0 .. MaxJobs + 1, filename \in DownloadNames :
       LET file_path == [dir |-> OutputDir(job_id), name |-> filename]
       IN  /\ call' = [fn |-> "download_file", job_id |-> job_id,
                       filename |-> filename]
           /\ ret' = IF job_id \notin DOMAIN jobs
                     THEN Response(404, "Job not found", <<>>)
                     ELSE IF ~Listed(jobs[job_id], filename)
                          THEN Response(404, "File not found", <<>>)
                          ELSE IF file_path \notin disk
                               THEN Response(404, "File not found on disk", <<>>)
                               ELSE Response(200, "", file_path)
  /\ UNCHANGED <<run_state, media, disk, jobs, job_counter, tasks>>

\* the task moves on to its next statement
Step(t, pc2) == tasks' = (tasks \ {t}) \cup {[t EXCEPT !.pc = pc2]}

\* a background task that marks every job of the map as processing
ProcessVideoBeginAll ==
  /\ LoopFree
  /\ \E t \in tasks :
       /\ jobs' = [j \in DOMAIN jobs |->
                     [jobs[j] EXCEPT !.status = Processing,
                                     !.message = <<"Setting up video processing...">>]]
       /\ Step(t, "setup")
  /\ UNCHANGED <<run_state, media, disk, job_counter, call, ret>>

\* process_video, lines 166-168: the background task starts
ProcessVideoBegin ==
  /\ LoopFree
  /\ \E t \in tasks :
       /\ jobs' = [jobs EXCEPT ![t.job_id] =
                     [@ EXCEPT !.status = Processing,
                               !.message = <<"Setting up video processing...">>]]
       /\ Step(t, "setup")
  /\ UNCHANGED <<run_state, media, disk, job_counter, call, ret>>

\* process_video, lines 171-194: the upload is missing, or the configuration
\* is refused; the except clause marks the job failed
ProcessVideoSetupFail ==
  /\ \E t \in tasks :
       /\ t.pc = "setup"
       /\ LET config == ConstructConfig(UploadPath(t.filename) \in disk,
                                        t.request.max_length,
                                        DefaultThreads, DefaultCrf)
              e == IF UploadPath(t.filename) \notin disk
                   THEN "Input file not found" ELSE config.error
          IN  /\ UploadPath(t.filename) \notin disk \/ ~config.ok
              /\ jobs' = [jobs EXCEPT ![t.job_id] = SetFailed(@, e)]
       /\ tasks' = Finish(t)
  /\ UNCHANGED <<run_state, media, disk, job_counter, call, ret>>

\* process_video, lines 171-204: the configuration is built, Splitter(config)
\* opens its log file, progress is set to 25
ProcessVideoSetupOk ==
  /\ \E t \in tasks :
       /\ t.pc = "setup"
       /\ UploadPath(t.filename) \in disk
       /\ ConstructConfig(TRUE, t.request.max_length,
                          DefaultThreads, DefaultCrf).ok
       /\ disk' = disk \cup {LogFile(t.job_id)}
       /\ jobs' = [jobs EXCEPT ![t.job_id] =
                     [@ EXCEPT !.message = <<"Splitting video into segments...">>,
                               !.progress = 25]]
       /\ Step(t, "process")
  /\ UNCHANGED <<run_state, media, job_counter, call, ret>>

\* process_video, lines 207-214: splitter.process() returned its segments
ProcessVideoOk ==
  /\ \E t \in tasks :
       /\ t.pc = "process"
       /\ GetVideoInfo(UploadPath(t.filename)).ok
       /\ Format(t.request.naming_pattern).ok
       /\ \E total \in JobDurations(t.request.max_length) :
            LET n == SplitNumSegments(total, t.request.max_length)
                files == [k \in 1 .. n |->
                           JobSegmentPath(t.job_id, t.request, k - 1)]
            IN  /\ disk' = disk \cup {files[k] : k \in 1 .. n}
                /\ jobs' = [jobs EXCEPT ![t.job_id] = SetCompleted(@, files)]
       /\ tasks' = Finish(t)
  /\ UNCHANGED <<run_state, media, job_counter, call, ret>>

\* process_video, lines 207 and 216-221: splitter.process() raised -- the
\* probe failed, the naming pattern did not format, or transcode k failed
\* after the segments before it were written
ProcessVideoFail ==
  /\ \E t \in tasks :
       /\ t.pc = "process"
       /\ IF ~GetVideoInfo(UploadPath(t.filename)).ok
          THEN /\ jobs' = [jobs EXCEPT ![t.job_id] = SetFailed(@, "ffprobe error")]
               /\ disk' = disk
          ELSE IF ~Format(t.request.naming_pattern).ok
               THEN /\ jobs' = [jobs EXCEPT ![t.job_id] = SetFailed(@, FormatError)]
                    /\ disk' = disk
               ELSE /\ jobs' = [jobs EXCEPT ![t.job_id] =
                                  SetFailed(@, TranscodeError)]
                    /\ \E total \in JobDurations(t.request.max_length) :
                         \E k \in 1 .. SplitNumSegments(total, t.request.max_length),
                            partial \in BOOLEAN :
                           disk' = disk \cup
                             {JobSegmentPath(t.job_id, t.request, m - 1) :
                                m \in 1 .. (IF partial THEN k ELSE k - 1)}
       /\ tasks' = Finish(t)
  /\ UNCHANGED <<run_state, media, job_counter, call, ret>>

NextJobs ==
  \/ SplitVideo
  \/ GetJobStatus
  \/ ListJobs
  \/ DownloadFile
  \/ ProcessVideoBegin
  \/ ProcessVideoSetupFail
  \/ ProcessVideoSetupOk
  \/ ProcessVideoOk
  \/ ProcessVideoFail

SpecJobs == InitJobs /\ [][NextJobs]_vars

\* the steps of the background tasks
RunnerStep ==
  \/ ProcessVideoBegin
  \/ ProcessVideoSetupFail
  \/ ProcessVideoSetupOk
  \/ ProcessVideoOk
  \/ ProcessVideoFail

\* the steps that touch the job map: job creation and the background tasks
\* (the reads get_job_status, list_jobs and download_file change no job and
\* no task)
NextJobsRun == SplitVideo \/ RunnerStep

\* The server runs a task added with background_tasks.add_task once the
\* response is sent, and every external call of process_video (mkdir, the
\* ffprobe and ffmpeg runs) returns: a runner step that can be taken is
\* taken in the end. Every runner step changes the set of tasks.
SpecJobsFair == InitJobs /\ [][NextJobsRun]_vars /\ WF_tasks(RunnerStep)

\* ============================================== Config, save and load
\* config.py 78-104. A configuration is a model whose fields hold typed
\* values; to_dict is model_dump(mode='python'), which turns the models into
\* dicts and leaves every value as the Python object it is.
\* a value: its type, its text (the parts of a path, the pieces of a string)
\* and its number
PathV(parts) == [type |-> "Path", text |-> parts, num |-> 0]
StrV(x) == [type |-> "str", text |-> x, num |-> 0]
IntV(n) == [type |-> "int", text |-> <<>>, num |-> n]
NoneV == [type |-> "NoneType", text |-> <<>>, num |-> 0]

\* the parts of a path
Parts(p) == <<p.dir>> \o p.name

\* the fields of Config and of its three sub-models, by dotted name
PathFields ==
  {"input_path", "output.directory", "intro_outro.intro_path",
   "intro_outro.outro_path"}

\* a valid Config
ConfigModel(seg, t, c, intro) ==
  [cls |-> "Config",
   fields |->
     [f \in PathFields \cup {"output.max_segment_length", "processing.threads",
                              "processing.crf", "output.format"} |->
        CASE f = "input_path" -> PathV(Parts(InputPath))
          [] f = "output.directory" -> PathV(<<OutputDirectory>>)
          [] f = "intro_outro.intro_path" -> intro
          [] f = "intro_outro.outro_path" -> NoneV
          [] f = "output.max_segment_length" -> IntV(seg)
          [] f = "processing.threads" -> IntV(t)
          [] f = "processing.crf" -> IntV(c)
          [] OTHER -> StrV(<<"mp4">>)]]

\* Config.to_dict: self.model_dump(mode='python')
ToDict(config) == config.fields

\* json.dump: JSONEncoder has no encoding for a Path object and raises
\* TypeError when it reaches one; str, int and None become JSON values
JsonDump(data) ==
  IF \E f \in DOMAIN data : data[f].type = "Path"
  THEN [ok |-> FALSE,
        error |-> "TypeError: Object of type PosixPath is not JSON serializable"]
  ELSE [ok |-> TRUE,
        doc |-> [f \in DOMAIN data |->
                  [json |-> IF data[f].type = "int" THEN "number"
                            ELSE IF data[f].type = "str" THEN "string"
                                 ELSE "null",
                   text |-> data[f].text, num |-> data[f].num]]]

\* yaml.dump with the default Dumper: an object that is no YAML type is
\* represented through __reduce_ex__, a Path as the tagged node
\* !!python/object/apply:pathlib.PosixPath
PythonTag == "tag:yaml.org,2002:python/object/apply:pathlib.PosixPath"

YamlDump(data) ==
  [ok |-> TRUE,
   doc |-> [f \in DOMAIN data |->
             [tag |-> IF data[f].type = "Path" THEN PythonTag
                      ELSE IF data[f].type = "int" THEN "int"
                           ELSE IF data[f].type = "str" THEN "str"
                                ELSE "null",
              text |-> data[f].text, num |-> data[f].num]]]

\* yaml.safe_load: SafeLoader has no constructor for a python/ tag
YamlSafeLoad(doc) ==
  IF \E f \in DOMAIN doc : doc[f].tag = PythonTag
  THEN [ok |-> FALSE,
        error |-> "ConstructorError: could not determine a constructor for the tag"]
  ELSE [ok |-> TRUE,
        data |-> [f \in DOMAIN doc |->
                   IF doc[f].tag = "int" THEN IntV(doc[f].num)
                   ELSE IF doc[f].tag = "str" THEN StrV(doc[f].text)
                        ELSE NoneV]]

\* json.load of a document that json.dump completed
JsonLoad(doc) ==
  [ok |-> TRUE,
   data |-> [f \in DOMAIN doc |->
              IF doc[f].json = "number" THEN IntV(doc[f].num)
              ELSE IF doc[f].json = "string" THEN StrV(doc[f].text)
                   ELSE NoneV]]

\* cls(**data): the path fields are made Paths again, the validators run
FromData(data) ==
  LET fields == [f \in DOMAIN data |->
                  IF f \in PathFields /\ data[f].type = "str"
                  THEN PathV(data[f].text) ELSE data[f]]
      checked == ConstructConfig(TRUE,
                                 fields["output.max_segment_length"].num,
                                 fields["processing.threads"].num,
                                 fields["processing.crf"].num)
  IN  IF checked.ok THEN [ok |-> TRUE, config |-> [cls |-> "Config",
                                                  fields |-> fields]]
      ELSE checked

\* save_yaml / save_json: the file left behind, and the exception if any;
\* the file is opened for writing before the dump starts
Save(format, config) ==
  LET dumped == IF format = "yaml" THEN YamlDump(ToDict(config))
                ELSE JsonDump(ToDict(config))
  IN  IF dumped.ok
      THEN [ok |-> TRUE, error |-> "",
            file |-> [format |-> format, complete |-> TRUE, doc |-> dumped.doc]]
      ELSE [ok |-> FALSE, error |-> dumped.error,
            file |-> [format |-> format, complete |-> FALSE, doc |-> <<>>]]

\* from_yaml / from_json on a saved file
Load(file) ==
  IF ~file.complete
  THEN [ok |-> FALSE, error |-> "JSONDecodeError"]
  ELSE LET parsed == IF file.format = "yaml" THEN YamlSafeLoad(file.doc)
                     ELSE JsonLoad(file.doc)
       IN  IF parsed.ok THEN FromData(parsed.data) ELSE parsed

ValidConfigs ==
  {ConfigModel(seg, t, c, intro) :
     seg \in SegmentLengths,
     t \in {MinThreads, DefaultThreads, MaxThreads},
     c \in {MinCrf, DefaultCrf, MaxCrf},
     intro \in {NoneV, PathV(Parts(IntroPath))}}

InitRoundTrip ==
  /\ RunIdle
  /\ ServiceIdle
  /\ disk = {} /\ media = <<>>
  /\ call \in {[fn |-> "round_trip", format |-> fmt, config |-> c] :
                 fmt \in {"yaml", "json"}, c \in ValidConfigs}
  /\ ret = [done |-> FALSE, stage |-> "start"]

\* c.save_yaml(path) or c.save_json(path)
SaveConfig ==
  /\ call.fn = "round_trip"
  /\ ret.stage = "start"
  /\ ret' = [done |-> FALSE, stage |-> "saved",
             save |-> Save(call.format, call.config)]
  /\ UNCHANGED <<run_state, media, disk, jobs, job_counter, tasks, call>>

\* Config.from_yaml(path) or Config.from_json(path) on the file saved
LoadConfig ==
  /\ call.fn = "round_trip"
  /\ ret.stage = "saved"
  /\ ret' = [done |-> TRUE, stage |-> "loaded", save |-> ret.save,
             load |-> Load(ret.save.file)]
  /\ UNCHANGED <<run_state, media, disk, jobs, job_counter, tasks, call>>

NextRoundTrip == SaveConfig \/ LoadConfig

SpecRoundTrip == InitRoundTrip /\ [][NextRoundTrip]_vars

\* ================================================= parse_time_string
\* utils.py 118-177. A string is the sequence of its characters.
IsDigit(c) == \E d \in DOMAIN Digits : Digits[d] = c
DigitValue(c) == (CHOOSE d \in DOMAIN Digits : Digits[d] = c) - 1
IsSpace(c) == c = " "

\* str.lower, on the characters that occur
LowerChar(c) ==
  IF c = "H" THEN "h" ELSE IF c = "M" THEN "m" ELSE IF c = "S" THEN "s" ELSE c
Lower(str) == [k \in DOMAIN str |-> LowerChar(str[k])]

\* str.strip
RECURSIVE LStrip(_)
LStrip(str) ==
  IF str # <<>> /\ IsSpace(Head(str)) THEN LStrip(Tail(str)) ELSE str
RECURSIVE RStrip(_)
RStrip(str) ==
  IF str # <<>> /\ IsSpace(str[Len(str)])
  THEN RStrip(SubSeq(str, 1, Len(str) - 1)) ELSE str
Strip(str) == RStrip(LStrip(str))

\* str.isdigit
IsDigitString(str) == str # <<>> /\ \A k \in DOMAIN str : IsDigit(str[k])

\* the value of a string of decimal digits
RECURSIVE DigitsValue(_)
DigitsValue(str) ==
  IF str = <<>> THEN 0
  ELSE 10 * DigitsValue(SubSeq(str, 1, Len(str) - 1))
         + DigitValue(str[Len(str)])

\* the last index of the run of digits that starts at index a
RECURSIVE RunEnd(_, _)
RunEnd(str, a) ==
  IF a < Len(str) /\ IsDigit(str[a + 1]) THEN RunEnd(str, a + 1) ELSE a

\* the first index after b that holds no space (Len + 1 if there is none)
RECURSIVE SkipSpaces(_, _)
SkipSpaces(str, b) ==
  IF b < Len(str) /\ IsSpace(str[b + 1]) THEN SkipSpaces(str, b + 1) ELSE b + 1

\* re.search(r'(\d+)\s*u', str): the leftmost match, as its group 1, or no
\* match
Search(str, unit) ==
  LET starts == {a \in DOMAIN str :
                   /\ IsDigit(str[a])
                   /\ LET k == SkipSpaces(str, RunEnd(str, a))
                      IN  k <= Len(str) /\ str[k] = unit}
  IN  IF starts = {} THEN [matched |-> FALSE, group |-> <<>>]
      ELSE LET a == CHOOSE x \in starts : \A y \in starts : x <= y
           IN  [matched |-> TRUE, group |-> SubSeq(str, a, RunEnd(str, a))]

\* the seconds a unit contributes: int(match.group(1)) * factor, or nothing
Contribution(str, unit, factor) ==
  LET m == Search(str, unit)
  IN  IF m.matched THEN DigitsValue(m.group) * factor ELSE 0

\* str.split(':')
RECURSIVE Split(_)
Split(str) ==
  IF \A k \in DOMAIN str : str[k] # ":" THEN <<str>>
  ELSE LET k == CHOOSE x \in DOMAIN str :
                  str[x] = ":" /\ \A y \in 1 .. x - 1 : str[y] # ":"
       IN  <<SubSeq(str, 1, k - 1)>> \o Split(SubSeq(str, k + 1, Len(str)))

\* int(part): surrounding whitespace and a sign are accepted
PyInt(part) ==
  LET t == Strip(part)
      negative == t # <<>> /\ Head(t) = "-"
      body == IF negative THEN Tail(t) ELSE t
  IN  IF IsDigitString(body)
      THEN [ok |-> TRUE,
            value |-> IF negative THEN 0 - DigitsValue(body)
                      ELSE DigitsValue(body)]
      ELSE [ok |-> FALSE, value |-> 0]

\* parse_time_string: "if total_seconds > 0"
UnitsMatched(total) == total > 0

Parsed(v) == [ok |-> TRUE, value |-> v, error |-> ""]
UnableToParse == [ok |-> FALSE, value |-> 0,
                  error |-> "ValueError: Unable to parse time string"]

\* parse_time_string(time_str)
ParseTimeString(raw) ==
  LET time_str == Lower(Strip(raw))
      total_seconds == Contribution(time_str, "h", 3600)
                         + Contribution(time_str, "m", 60)
                         + Contribution(time_str, "s", 1)
      time_parts == Split(time_str)
      ints == [k \in DOMAIN time_parts |-> PyInt(time_parts[k])]
      allInts == \A k \in DOMAIN ints : ints[k].ok
  IN  IF IsDigitString(time_str) THEN Parsed(DigitsValue(time_str))
      ELSE IF UnitsMatched(total_seconds) THEN Parsed(total_seconds)
      ELSE IF Len(time_parts) = 3 /\ allInts
           THEN Parsed(ints[1].value * 3600 + ints[2].value * 60 + ints[3].value)
      ELSE IF Len(time_parts) = 2 /\ allInts
           THEN Parsed(ints[1].value * 60 + ints[2].value)
      ELSE UnableToParse

\* the characters the strings are made of
TimeChars == {"0", "1", "h", "H", "m", "s", ":", "a", " ", "-", "."}

\* the samples of the documentation and of test_parse_time_string
TimeSamples ==
  {<<"1", "2", "0">>, <<"2", "m">>, <<"1", "h", "3", "0", "m">>,
   <<"1", ":", "3", "0", ":", "0", "0">>, <<"9", "0", ":", "3", "0">>,
   <<"a", "b", "c">>}

InitParse ==
  /\ RunIdle
  /\ ServiceIdle
  /\ disk = {} /\ media = <<>>
  /\ call \in {[fn |-> "parse_time_string", time_str |-> x] :
                 x \in SeqsUpTo(TimeChars, MaxTimeLen) \cup TimeSamples}
  /\ ret = [done |-> FALSE]

\* the call returns the seconds, or raises ValueError
CallParseTimeString ==
  /\ call.fn = "parse_time_string"
  /\ ~ret.done
  /\ LET r == ParseTimeString(call.time_str)
     IN  ret' = [done |-> TRUE, ok |-> r.ok, value |-> r.value,
                 error |-> r.error]
  /\ UNCHANGED <<run_state, media, disk, jobs, job_counter, tasks, call>>

NextParse == CallParseTimeString

SpecParse == InitParse /\ [][NextParse]_vars

\* =================================================== format_duration
\* utils.py 10-22. timedelta(seconds = n) normalises n into days and
\* seconds, where 0 <= seconds < 86400; the function reads td.seconds only.
SecondsPerDay == 86400

TimedeltaSeconds(n) == n % SecondsPerDay

\* format_duration(seconds), the string as its pieces
FormatDuration(n) ==
  LET hours == TimedeltaSeconds(n) \div 3600
      minutes == (TimedeltaSeconds(n) % 3600) \div 60
      seconds == TimedeltaSeconds(n) % 60
  IN  IF hours > 0
      THEN Decimal(hours) \o <<"h", " ">> \o Decimal(minutes) \o <<"m", " ">>
             \o Decimal(seconds) \o <<"s">>
      ELSE IF minutes > 0
           THEN Decimal(minutes) \o <<"m", " ">> \o Decimal(seconds) \o <<"s">>
           ELSE Decimal(seconds) \o <<"s">>

\* the seconds formatted: every short duration, and durations around an
\* hour and around a day
DurationsTried ==
  (0 .. MaxShortDuration)
    \cup {3599, 3600, 3661, SecondsPerDay - 1, SecondsPerDay,
          SecondsPerDay + 1, SecondsPerDay + 3661}

InitFormat ==
  /\ RunIdle
  /\ ServiceIdle
  /\ disk = {} /\ media = <<>>
  /\ call \in {[fn |-> "format_duration", seconds |-> n] : n \in DurationsTried}
  /\ ret = [done |-> FALSE]

CallFormatDuration ==
  /\ call.fn = "format_duration"
  /\ ~ret.done
  /\ ret' = [done |-> TRUE, text |-> FormatDuration(call.seconds)]
  /\ UNCHANGED <<run_state, media, disk, jobs, job_counter, tasks, call>>

NextFormat == CallFormatDuration

SpecFormat == InitFormat /\ [][NextFormat]_vars

\* ================================================= sanitize_filename
\* utils.py 25-59. A string is the sequence of its characters; a character
\* outside ASCII is written by its code point.
InvalidChars == {"<", ">", ":", "\"", "/", "\\", "|", "?", "*"}

\* e with acute, combining acute, fullwidth less-than sign, a CJK ideograph
NonAscii == {"U+00E9", "U+0301", "U+FF1C", "U+65E5"}

\* re.sub(pattern, '_', filename), character by character
SubInvalid(str) ==
  [k \in DOMAIN str |-> IF str[k] \in InvalidChars THEN "_" ELSE str[k]]

\* unicodedata.normalize('NFKD', c): the compatibility decomposition
NFKDChar(c) ==
  IF c = "U+00E9" THEN <<"e", "U+0301">>
  ELSE IF c = "U+FF1C" THEN <<"<">>
       ELSE <<c>>

RECURSIVE NFKD(_)
NFKD(str) ==
  IF str = <<>> THEN <<>> ELSE NFKDChar(Head(str)) \o NFKD(Tail(str))

\* filename.encode('ascii', 'ignore').decode('ascii')
AsciiOnly(str) == SelectSeq(str, LAMBDA c : c \notin NonAscii)

\* filename.strip('. ')
RECURSIVE StripDotsSpaces(_)
StripDotsSpaces(str) ==
  IF str # <<>> /\ Head(str) \in {".", " "} THEN StripDotsSpaces(Tail(str))
  ELSE IF str # <<>> /\ str[Len(str)] \in {".", " "}
       THEN StripDotsSpaces(SubSeq(str, 1, Len(str) - 1))
       ELSE str

\* re.sub(r'[\s_]+', '_', filename)
RECURSIVE Collapse(_)
Collapse(str) ==
  IF str = <<>> THEN <<>>
  ELSE IF Head(str) \in {" ", "_"}
       THEN IF Len(str) > 1 /\ str[2] \in {" ", "_"}
            THEN Collapse(Tail(str))
            ELSE <<"_">> \o Collapse(Tail(str))
       ELSE <<Head(str)>> \o Collapse(Tail(str))

Unnamed == <<"u", "n", "n", "a", "m", "e", "d">>

\* filename[:max_length]
Truncate(str, max_length) ==
  IF Len(str) > max_length THEN SubSeq(str, 1, max_length) ELSE str

\* sanitize_filename(filename, max_length)
SanitizeFilename(filename, max_length) ==
  LET f == Collapse(StripDotsSpaces(AsciiOnly(NFKD(SubInvalid(filename)))))
  IN  Truncate(IF f = <<>> THEN Unnamed ELSE f, max_length)

NameChars == {"a", "<", " ", "_", ".", "U+00E9", "U+FF1C", "U+65E5"}

\* the samples of test_sanitize_filename
NameSamples ==
  {<<"t", "e", "s", "t", "<", ">", "f", "i", "l", "e">>,
   <<"f", "i", "l", "e", " ", "w", "i", "t", "h">>}

DefaultMaxLength == 100

InitSanitize ==
  /\ RunIdle
  /\ ServiceIdle
  /\ disk = {} /\ media = <<>>
  /\ call \in {[fn |-> "sanitize_filename", filename |-> x, max_length |-> n] :
                 x \in SeqsUpTo(NameChars, MaxNameLen) \cup NameSamples,
                 n \in {1, 2, DefaultMaxLength}}
  /\ ret = [done |-> FALSE]

CallSanitizeFilename ==
  /\ call.fn = "sanitize_filename"
  /\ ~ret.done
  /\ ret' = [done |-> TRUE,
             name |-> SanitizeFilename(call.filename, call.max_length)]
  /\ UNCHANGED <<run_state, media, disk, jobs, job_counter, tasks, call>>

NextSanitize == CallSanitizeFilename

SpecSanitize == InitSanitize /\ [][NextSanitize]_vars

\* ===================================================== the properties
\* split_video returned its list to Splitter.process
SplitReturned == pc \in {"stitch", "concat", "unlink", "done", "reported"}

Min(a, b) == IF a < b THEN a ELSE b

\* the part of window k that lies inside the recording, in ticks
InSource(k) ==
  Min(SegTicks(transcodes[k].t), duration - SegTicks(transcodes[k].ss))

RECURSIVE SumInSource(_)
SumInSource(k) == IF k = 0 THEN 0 ELSE InSource(k) + SumInSource(k - 1)

RECURSIVE SumRequested(_)
SumRequested(k) ==
  IF k = 0 THEN 0 ELSE SegTicks(transcodes[k].t) + SumRequested(k - 1)

\* C1 (as amended): the windows requested from the transcoder start at 0 and
\* are contiguous (each starts where the one before ends), every requested
\* duration is exactly max_segment_length -- the last one included, so that
\* it may reach past the end of the recording -- every window starts inside
\* the recording, and once split_video has returned the windows reach the
\* end of the recording and their parts inside it are each in
\* (0, max_segment_length] and sum to exactly total_duration.
C1_WindowsCoverRecording ==
  /\ \A k \in DOMAIN transcodes :
       /\ transcodes[k].t = cfg.max_segment_length
       /\ SegTicks(transcodes[k].ss) < duration
       /\ InSource(k) > 0 /\ InSource(k) <= SegTicks(cfg.max_segment_length)
       /\ k = 1 => transcodes[k].ss = 0
       /\ k > 1 => transcodes[k].ss = transcodes[k - 1].ss + transcodes[k - 1].t
  /\ SplitReturned =>
       LET n == Len(transcodes)
       IN  /\ n >= 1
           /\ SegTicks(transcodes[n].ss + transcodes[n].t) >= duration
           /\ SumInSource(n) = duration

\* C1 witness: a recording of two whole segments and a remainder was split
C1_Witness ==
  /\ SplitReturned
  /\ Len(transcodes) = 3
  /\ duration % SegTicks(cfg.max_segment_length) > 0

\* C1 as stated: every requested duration is in (0, max_segment_length], the
\* last requested duration is total_duration - start, and the requested
\* durations sum to exactly total_duration.
C1_AsStated ==
  SplitReturned =>
    LET n == Len(transcodes)
    IN  /\ \A k \in 1 .. n :
             transcodes[k].t > 0 /\ transcodes[k].t <= cfg.max_segment_length
        /\ SegTicks(transcodes[n].t) = duration - SegTicks(transcodes[n].ss)
        /\ SumRequested(n) = duration

\* C2: when split_video has returned, the number of transcoder invocations
\* equals the count Splitter.process computed and the number of segments
\* returned; it is floor(total / max) plus one exactly when the remainder is
\* positive, i.e. the least n with n * max >= total; an exact multiple gives
\* the quotient, and no window starts at or past the end of the recording.
C2_SegmentCount ==
  SplitReturned =>
    LET n == Len(transcodes)
        seg == SegTicks(cfg.max_segment_length)
    IN  /\ n = num_segments
        /\ n = Len(segment_files)
        /\ n = (duration \div seg) + (IF duration % seg > 0 THEN 1 ELSE 0)
        /\ (n - 1) * seg < duration /\ duration <= n * seg
        /\ duration % seg = 0 => n * seg = duration
        /\ \A k \in 1 .. n : SegTicks(transcodes[k].ss) < duration

\* C2 witness: a recording of exactly two segments was split
C2_Witness ==
  /\ SplitReturned
  /\ duration = 2 * SegTicks(cfg.max_segment_length)
  /\ Len(segment_files) = 2

\* C3 as stated: two distinct segment indices of a run are never rendered to
\* the same output path.
C3_UniquePaths ==
  \A a \in DOMAIN transcodes, b \in DOMAIN transcodes :
    transcodes[a].index # transcodes[b].index
      => transcodes[a].path # transcodes[b].path

\* the path the claim expects for segment k (1-based) under the default template
ExpectedDefaultPath(k) ==
  [dir |-> OutputDirectory,
   name |-> <<Title, "_part">> \o Pad2(k) \o <<"_", Date, ".", cfg.format>>]

\* C4 as stated: with the default naming template the run-level resolution
\* of {title} and {date} succeeds, and segment i is written to
\* <directory>/<title>_part<ii>_<date>.<format>.
C4_DefaultTemplateRenders ==
  cfg.naming_pattern = DefaultNamingPattern =>
    /\ error # FormatError
    /\ \A k \in DOMAIN transcodes : transcodes[k].path = ExpectedDefaultPath(k)


\* C5: when the transcoder invocation for segment k fails, it is the last
\* invocation of the run, the invocations before it succeeded and their
\* output paths are still on disk, no playlist was written, no concat was
\* invoked, nothing was unlinked, and process ends with the transcoder's
\* error instead of a result.
C5_AbortOnFirstFailure ==
  \A k \in DOMAIN transcodes :
    ~transcodes[k].ok =>
      /\ pc = "failed" /\ error = TranscodeError /\ result = <<>>
      /\ k = Len(transcodes)
      /\ \A j \in 1 .. k - 1 : transcodes[j].ok /\ transcodes[j].path \in disk
      /\ concats = <<>> /\ unlinks = <<>> /\ processed_files = <<>>
      /\ ~ENABLED Next

\* C5 witness: segment 2 of 3 failed after segment 1 was written
C5_Witness ==
  /\ Len(transcodes) = 2
  /\ split_count = 3
  /\ transcodes[1].ok /\ ~transcodes[2].ok
  /\ transcodes[1].path \in disk

\* C6: the k-th transcoder invocation of a run is for index k (ascending, no
\* index twice), only the last invocation can have failed (a failure is not
\* retried), and the list split_video returns has one path per window, the
\* k-th being the path the k-th invocation wrote.
C6_AscendingOncePerIndex ==
  /\ \A k \in DOMAIN transcodes :
       /\ transcodes[k].index = k
       /\ k < Len(transcodes) => transcodes[k].ok
  /\ Len(transcodes) <= split_count
  /\ SplitReturned =>
       /\ Len(segment_files) = split_count
       /\ Len(transcodes) = split_count
       /\ \A k \in DOMAIN segment_files :
            transcodes[k].ok /\ segment_files[k] = transcodes[k].path

\* C6 witness: three windows were transcoded and returned
C6_Witness == SplitReturned /\ Len(segment_files) = 3

\* the concat invocation for segment k ended with outcome o
Stitched(k, o) ==
  \E c \in DOMAIN concats : concats[c].index = k /\ concats[c].outcome = o

\* C7 as stated: no exception escapes the stage; when it has returned, every
\* segment was attempted, a segment whose stitch succeeded appears at its
\* position as its stitched file, and a segment whose stitch failed appears
\* at its position as the original path, whose file is on disk.
C7_FailureIsolation ==
  /\ concats # <<>> => pc # "failed"
  /\ (pc = "done" /\ StageConfigured) =>
       \A k \in DOMAIN segment_files :
         /\ Stitched(k, "ok") \/ Stitched(k, "failed")
         /\ Stitched(k, "ok") =>
              k <= Len(result) /\ result[k] = FinalPath(segment_files[k])
         /\ Stitched(k, "failed") =>
              /\ k <= Len(result) /\ result[k] = segment_files[k]
              /\ segment_files[k] \in disk

\* C8 as stated: the original of a produced segment is gone only when the
\* concat for that segment succeeded and its stitched file exists; so one of
\* the two exists at all times, and after a failed stitch the original is
\* still there.
C8_OriginalOutlivesStitch ==
  \A k \in DOMAIN output_files :
    /\ output_files[k] \in disk \/ FinalPath(output_files[k]) \in disk
    /\ output_files[k] \notin disk =>
         Stitched(k, "ok") /\ FinalPath(output_files[k]) \in disk
    /\ Stitched(k, "failed") => output_files[k] \in disk

Count(s, x) == Cardinality({a \in DOMAIN s : s[a] = x})

\* C10 as stated: a manifest holds its segment exactly once, one to three
\* paths, nothing but the intro, the segment and the outro, the intro before
\* and the outro after the segment, and no path of any other segment.
C10_Manifest ==
  \A c \in DOMAIN concats :
    LET m == concats[c].files
        k == concats[c].index
        own == segment_files[k]
    IN  /\ Len(m) >= 1 /\ Len(m) <= 3
        /\ Count(m, own) = 1
        /\ \A a \in DOMAIN m : m[a] \in {cfg.intro_path, own, cfg.outro_path}
        /\ \A a \in DOMAIN m : m[a] # NoPath
        /\ \A a \in DOMAIN m, b \in DOMAIN m :
             /\ (m[a] = cfg.intro_path /\ m[b] = own) => a < b
             /\ (m[a] = own /\ m[b] = cfg.outro_path) => a < b
        /\ \A j \in DOMAIN segment_files :
             j # k => Count(m, segment_files[j]) = 0

\* the playlists written so far
Playlists == {concats[k].list_file : k \in DOMAIN concats}

\* C11: once the stitching of a segment has finished -- ffmpeg.run succeeded,
\* or raised ffmpeg.Error -- its playlist no longer exists: outside a running
\* concat no playlist is on disk, in particular none when the stage has
\* returned.
C11_PlaylistRemoved ==
  /\ pc # "concat" => Playlists \cap disk = {}
  /\ pc = "concat" => concats[Len(concats)].outcome = "running"
  /\ \A k \in DOMAIN concats :
       k < Len(concats) => concats[k].outcome \in {"ok", "failed"}

\* C11 witness: the stage returned after one concat succeeded and one failed
C11_Witness ==
  /\ pc = "done"
  /\ \E k \in DOMAIN concats : concats[k].outcome = "ok"
  /\ \E k \in DOMAIN concats : concats[k].outcome = "failed"
  /\ Playlists \cap disk = {}

\* the paths the concat unit logged as concats[k] writes: its playlist and
\* its stitched output
Writes(k) == {concats[k].list_file, concats[k].output}

\* C12: the concat units of different segments are independent: the paths
\* written by the unit of one segment (its playlist, its stitched output) are
\* disjoint from the paths written by the unit of any other segment.
C12_DisjointWrites ==
  \A a, b \in DOMAIN concats :
    concats[a].index # concats[b].index => Writes(a) \cap Writes(b) = {}

\* the same, when every segment has a path of its own
C12_DisjointWritesUniqueNames ==
  (\A a, b \in DOMAIN segment_files :
     a # b => segment_files[a] # segment_files[b])
    => C12_DisjointWrites

\* the supplied paths that exist
Existing(paths) == {paths[k] : k \in {j \in DOMAIN paths : paths[j] \in disk}}

\* the descriptors of p and q, both obtained, differ in resolution or codec
Differ(p, q) ==
  /\ media[p].ok /\ media[q].ok
  /\ \/ media[p].width # media[q].width
     \/ media[p].height # media[q].height
     \/ media[p].codec # media[q].codec

\* C13: validate_compatibility returns true for zero or one path without
\* probing anything; for two or more paths it returns true only if every
\* probe succeeded and the probed descriptors all share one (width, height)
\* and one codec; whenever two probed descriptors differ it returns false,
\* as a value and not as an exception.
C13_Compatibility ==
  ret.done =>
    LET paths == call.paths
        probed == {ret.probed[k] : k \in DOMAIN ret.probed}
    IN  /\ Len(paths) < 2 =>
             ret.returned /\ ~ret.raised /\ ret.probed = <<>>
        /\ (Len(paths) >= 2 /\ ret.returned) =>
             /\ ~ret.raised
             /\ probed = Existing(paths)
             /\ \A p, q \in probed :
                  /\ media[p].ok
                  /\ media[p].width = media[q].width
                  /\ media[p].height = media[q].height
                  /\ media[p].codec = media[q].codec
        /\ (Len(paths) >= 2 /\ \E p, q \in probed : Differ(p, q)) =>
             ~ret.returned /\ ~ret.raised

\* C13 witness: three existing files were probed, two of them differ in
\* codec only, and the call returned false
C13_Witness ==
  /\ ret.done /\ Len(call.paths) = 3 /\ Len(ret.probed) = 3
  /\ ~ret.returned /\ ~ret.raised
  /\ \E p, q \in Existing(call.paths) :
       /\ Differ(p, q)
       /\ media[p].width = media[q].width /\ media[p].height = media[q].height
  /\ \A p, q \in Existing(call.paths) :
       media[p].width = media[q].width /\ media[p].height = media[q].height

ConfiguredClips == {cfg.intro_path, cfg.outro_path} \ {NoPath}

\* C15: when an intro and/or outro is configured and a configured file is
\* missing or the compatibility check returns false, Splitter.process fails
\* with the validation error before any transcode or concat invocation: no
\* segment file and no stitched file is created.
C15_Gating ==
  (/\ StageConfigured
   /\ \/ \E p \in ConfiguredClips : p \notin disk
      \/ ~CompatibilityCall(FilesToCheck).returned)
    => /\ pc \in {"validate", "failed"}
       /\ pc = "failed" => error = "Input validation failed"
       /\ transcodes = <<>> /\ concats = <<>>
       /\ disk \subseteq Clips

\* C15 witness: the configured clips exist, the intro's codec differs from
\* the recording's, and process has failed
C15_Witness ==
  /\ pc = "failed"
  /\ cfg.intro_path # NoPath
  /\ ConfiguredClips \subseteq disk
  /\ media[cfg.intro_path] = OtherCodec
  /\ media[cfg.input_path] = BaseInfo
  /\ transcodes = <<>> /\ disk \subseteq Clips

\* C16: the stages of a run are ordered. A transcode is invoked only after
\* validation passed; a concat only after every transcode of the run has
\* completed; the report is written only after the stage (or the
\* pass-through) returned its list; a run that failed has written no report.
C16_StageOrdering ==
  /\ transcodes # <<>> => pc # "validate" /\ ValidateInputs
  /\ concats # <<>> =>
       /\ SplitReturned
       /\ Len(transcodes) = split_count
       /\ \A k \in DOMAIN transcodes : transcodes[k].ok
       /\ segment_files = output_files
  /\ ReportPath \in disk =>
       /\ pc = "reported" /\ error = ""
       /\ Len(transcodes) = split_count
       /\ \A k \in DOMAIN concats : concats[k].outcome # "running"
       /\ IF StageConfigured
          THEN i >= Len(segment_files) /\ result = processed_files
          ELSE concats = <<>> /\ result = segment_files
  /\ pc = "failed" => ReportPath \notin disk

\* C16 witness: the report was written after three transcodes and three
\* concats
C16_Witness ==
  /\ ReportPath \in disk
  /\ Len(transcodes) = 3 /\ Len(concats) = 3

InRange(v, lo, hi) == v >= lo /\ v <= hi

\* C20: a configuration is constructed only if max_segment_length is in
\* [60, 7200], threads in [1, 16] and crf in [0, 51], and it is constructed
\* whenever they are and the input file is valid; 60 and 7200 are accepted,
\* 59 and 7201 rejected; a value out of range raises a validation error and
\* yields no configuration, so the planner never runs with a
\* max_segment_length outside [60, 7200].
C20_ConfigBounds ==
  ret.done =>
    LET inRange ==
          /\ InRange(call.max_segment_length, 60, 7200)
          /\ InRange(call.threads, 1, 16)
          /\ InRange(call.crf, 0, 51)
    IN  /\ ret.config.ok => inRange
        /\ (inRange /\ call.input_exists) => ret.config.ok
        /\ ret.config.ok =>
             /\ ret.config.max_segment_length = call.max_segment_length
             /\ ret.config.threads = call.threads
             /\ ret.config.crf = call.crf
        /\ ~ret.config.ok => ret.config.error # "" /\ ~ret.planned
        /\ call.max_segment_length \in {59, 7201} => ~ret.config.ok
        /\ ret.planned => InRange(ret.config.max_segment_length, 60, 7200)

\* C20 witness: the planner ran with a max_segment_length of 7200
C20_Witness ==
  /\ ret.done /\ ret.planned
  /\ call.max_segment_length = 7200 /\ call.threads = 16 /\ call.crf = 0
  /\ ret.num_segments = 2

Terminal == {Completed, Failed}

\* C17: a job's status is always one of pending, processing, completed and
\* failed; a job starts as pending; once it is completed or failed no step
\* changes its status or any other field of its record.
C17_TerminalAbsorbing ==
  [][/\ \A j \in DOMAIN jobs' :
          jobs'[j].status \in {Pending, Processing, Completed, Failed}
     /\ \A j \in DOMAIN jobs' \ DOMAIN jobs : jobs'[j].status = Pending
     /\ \A j \in DOMAIN jobs :
          jobs[j].status \in Terminal =>
            j \in DOMAIN jobs' /\ jobs'[j] = jobs[j]]_vars

\* C17 witness: job 1 is completed, job 2 failed, and steps were taken since
\* (the last request served is a read)
C17_Witness ==
  /\ job_counter = 2
  /\ jobs[1].status = Completed /\ jobs[2].status = Failed
  /\ call.fn = "list_jobs"

\* the records a status read returned
ReadRecords ==
  IF ret.done /\ ret.status_code = 200
  THEN IF call.fn = "get_job_status" THEN {ret.body}
       ELSE IF call.fn = "list_jobs"
            THEN {ret.body[k] : k \in DOMAIN ret.body}
            ELSE {}
  ELSE {}

\* the names of the segment files under the output directory of a job
SegmentNames(job_id) ==
  {f.name : f \in {g \in disk : g.dir = OutputDir(job_id)} \ {LogFile(job_id)}}

\* C18: a status read (get_job_status, list_jobs) never returns a partially
\* updated record: a record read as completed has progress 100, completed_at
\* set and the full list of output files, a record read as failed has its
\* error and completed_at set.
C18_ReadsSeeWholeUpdates ==
  \A r \in ReadRecords :
    /\ r.status = Completed =>
         /\ r.progress = 100
         /\ r.completed_at # None
         /\ r.output_files # <<>>
         /\ {r.output_files[k] : k \in DOMAIN r.output_files} = SegmentNames(r.id)
    /\ r.status = Failed => r.error # None /\ r.completed_at # None

\* C18 witness: list_jobs returned a completed job with two output files and
\* a failed job
C18_Witness ==
  /\ call.fn = "list_jobs"
  /\ \E r \in ReadRecords : r.status = Completed /\ Len(r.output_files) = 2
  /\ \E r \in ReadRecords : r.status = Failed

\* the ids job creation has returned
Issued == 1 .. job_counter

\* C19: get_job_status answers 404 for an id job creation never returned and
\* returns the record for an id it returned; download_file answers 404
\* whenever the job is unknown or the filename is not in that job's
\* output_files, and serves a file only if it is listed in the output_files
\* of the job addressed.
C19_NotFound ==
  [][/\ (call'.fn = "get_job_status" /\ <<call, ret>>' # <<call, ret>>) =>
          IF call'.job_id \in Issued
          THEN /\ ret'.status_code = 200
               /\ ret'.body = jobs[call'.job_id]
               /\ ret'.body.id = call'.job_id
          ELSE ret'.status_code = 404
     /\ (call'.fn = "download_file" /\ <<call, ret>>' # <<call, ret>>) =>
          LET known == call'.job_id \in Issued
              listed ==
                known /\ \E k \in DOMAIN jobs[call'.job_id].output_files :
                           jobs[call'.job_id].output_files[k] = call'.filename
          IN  /\ ~listed => ret'.status_code = 404
              /\ ret'.status_code \in {200, 404}
              /\ ret'.status_code = 200 =>
                   /\ ret'.body = [dir |-> OutputDir(call'.job_id),
                                   name |-> call'.filename]
                   /\ ret'.body \in disk]_vars

\* C19 witness: a file of job 1 was served while job 2, which does not list
\* it, exists
C19_Witness ==
  /\ call.fn = "download_file" /\ call.job_id = 1
  /\ ret.status_code = 200
  /\ job_counter = 2 /\ jobs[2].output_files = <<>>

\* C21: for every valid Config and each of the two formats, saving succeeds
\* and loading the saved file with the matching loader yields a Config equal
\* to the one saved.
C21_RoundTrip ==
  /\ ret.stage \in {"saved", "loaded"} => ret.save.ok
  /\ ret.stage = "loaded" => ret.load.ok /\ ret.load.config = call.config

\* the same for the saving alone
C21_SaveSucceeds == ret.stage \in {"saved", "loaded"} => ret.save.ok

\* the same for YAML alone
C21_YamlRoundTrip ==
  (call.fn = "round_trip" /\ call.format = "yaml" /\ ret.stage = "loaded")
    => ret.load.ok /\ ret.load.config = call.config

\* the input of the call, trimmed and lower-cased
Trimmed == Lower(Strip(call.time_str))

Units == {"h", "m", "s"}
Factor(u) == IF u = "h" THEN 3600 ELSE IF u = "m" THEN 60 ELSE 1

\* str read as terms <int><unit>, with or without spaces around the units:
\* the terms, or that it is not wholly made of such terms
RECURSIVE Terms(_, _)
Terms(str, spaces) ==
  IF str = <<>> THEN [ok |-> TRUE, terms |-> <<>>]
  ELSE IF ~IsDigit(Head(str)) THEN [ok |-> FALSE, terms |-> <<>>]
  ELSE LET e == RunEnd(str, 1)
           k == IF spaces THEN SkipSpaces(str, e) ELSE e + 1
       IN  IF k > Len(str) \/ str[k] \notin Units
           THEN [ok |-> FALSE, terms |-> <<>>]
           ELSE LET after == SubSeq(str, k + 1, Len(str))
                    rest == Terms(IF spaces THEN LStrip(after) ELSE after,
                                  spaces)
                IN  [ok |-> rest.ok,
                     terms |-> <<[n |-> DigitsValue(SubSeq(str, 1, e)),
                                  unit |-> str[k]]>> \o rest.terms]

RECURSIVE TermsValue(_)
TermsValue(terms) ==
  IF terms = <<>> THEN 0
  ELSE Head(terms).n * Factor(Head(terms).unit) + TermsValue(Tail(terms))

\* a composite of <int>h, <int>m, <int>s: any subset, each unit once
IsComposite(str) ==
  LET t == Terms(str, FALSE)
  IN  /\ t.ok /\ t.terms # <<>>
      /\ \A a, b \in DOMAIN t.terms :
           a # b => t.terms[a].unit # t.terms[b].unit

\* HH:MM:SS or MM:SS, every component a string of digits
IsColonForm(str) ==
  /\ Len(Split(str)) \in {2, 3}
  /\ \A k \in DOMAIN Split(str) : IsDigitString(Split(str)[k])

ColonValue(str) ==
  LET parts == Split(str)
  IN  IF Len(parts) = 3
      THEN DigitsValue(parts[1]) * 3600 + DigitsValue(parts[2]) * 60
             + DigitsValue(parts[3])
      ELSE DigitsValue(parts[1]) * 60 + DigitsValue(parts[2])

\* the value the three forms give a string that is wholly of one of them
FormValue(str) ==
  IF IsDigitString(str) THEN DigitsValue(str)
  ELSE IF IsComposite(str) THEN TermsValue(Terms(str, FALSE).terms)
       ELSE ColonValue(str)

\* C22: parse_time_string maps, after trimming and lower-casing, a pure
\* digit string to its value in seconds, a composite of <int>h, <int>m,
\* <int>s in any subset to h*3600 + m*60 + s, also when that sum is 0, and
\* HH:MM:SS and MM:SS to their seconds.
C22_Parses ==
  (/\ ret.done
   /\ IsDigitString(Trimmed) \/ IsComposite(Trimmed) \/ IsColonForm(Trimmed))
    => ret.ok /\ ret.value = FormValue(Trimmed)

\* the same for the inputs whose value is not 0
C22_ParsesNonZero ==
  (/\ ret.done
   /\ IsDigitString(Trimmed) \/ IsComposite(Trimmed) \/ IsColonForm(Trimmed)
   /\ FormValue(Trimmed) > 0)
    => ret.ok /\ ret.value = FormValue(Trimmed)

\* a string that is wholly of one of the three forms, read generously: the
\* units in any order and number with spaces allowed, the colon components
\* anything int() accepts
IsAcceptedForm(str) ==
  \/ IsDigitString(str)
  \/ Terms(str, TRUE).ok /\ str # <<>>
  \/ /\ Len(Split(str)) \in {2, 3}
     /\ \A k \in DOMAIN Split(str) : PyInt(Split(str)[k]).ok

\* C23: parse_time_string fails with the invalid-time-format error for every
\* input that is not wholly one of the three accepted forms: a unit
\* expression embedded in other text is rejected, not partially parsed.
C23_Rejects ==
  (ret.done /\ ~IsAcceptedForm(Trimmed)) => ~ret.ok

\* the string the claim gives n seconds: s, m and s, or h, m and s, with
\* h = n div 3600
DurationText(n) ==
  LET h == n \div 3600
      m == (n % 3600) \div 60
      sec == n % 60
  IN  IF n < 60 THEN Decimal(sec) \o <<"s">>
      ELSE IF n < 3600
           THEN Decimal(m) \o <<"m", " ">> \o Decimal(sec) \o <<"s">>
           ELSE Decimal(h) \o <<"h", " ">> \o Decimal(m) \o <<"m", " ">>
                  \o Decimal(sec) \o <<"s">>

\* C24: for every whole number n >= 0 of seconds, format_duration(n) is
\* '{s}s' if n < 60, '{m}m {s}s' if n < 3600 and '{h}h {m}m {s}s' otherwise,
\* with h = n div 3600 (not reduced modulo 24), m = (n mod 3600) div 60,
\* s = n mod 60.
C24_FormatDuration ==
  ret.done => ret.text = DurationText(call.seconds)

\* the same for durations of less than a day
C24_BelowADay ==
  (ret.done /\ call.seconds < 86400) => ret.text = DurationText(call.seconds)

\* an input made of ASCII characters and of characters NFKD leaves outside
\* ASCII
NoCompatibilityChars(str) == \A k \in DOMAIN str : str[k] # "U+FF1C"

NameIsSafe(name, max_length) ==
  /\ name # <<>>
  /\ Len(name) <= max_length
  /\ \A k \in DOMAIN name :
       /\ name[k] \notin NonAscii
       /\ name[k] \notin {"<", ">", ":", "\"", "/", "\\", "|", "?", "*"}

\* C25: for every input and max_length >= 1 the result of sanitize_filename
\* is non-empty, has at most max_length characters, is pure ASCII and
\* contains none of < > : " / \ | ? *.
C25_SafeName ==
  ret.done => NameIsSafe(ret.name, call.max_length)

\* the same for the inputs without a character whose compatibility
\* decomposition is one of the characters to be replaced
C25_SafeNameNoCompat ==
  (ret.done /\ NoCompatibilityChars(call.filename))
    => NameIsSafe(ret.name, call.max_length)

\* process returned, whether or not the report was written since
Returned == pc \in {"done", "reported"}

\* C26: the list the stage returns has exactly one entry per input segment,
\* in the same index order, and entry k is the stitched path of segment k or
\* its original path, whatever the outcomes of the stitches and deletions.
C26_OneEntryPerSegment ==
  (Returned /\ StageConfigured) =>
    /\ Len(result) = Len(segment_files)
    /\ \A k \in DOMAIN result :
         result[k] \in {FinalPath(segment_files[k]), segment_files[k]}

\* the same for the runs in which no deletion failed
C26_OneEntryWhenUnlinksSucceed ==
  (Returned /\ StageConfigured /\ \A u \in DOMAIN unlinks : unlinks[u].ok) =>
    /\ Len(result) = Len(segment_files)
    /\ \A k \in DOMAIN result :
         result[k] \in {FinalPath(segment_files[k]), segment_files[k]}

\* the paths a successful deletion removed, and the stitched paths whose
\* concat failed
DeletedPaths == {unlinks[u].path : u \in {v \in DOMAIN unlinks : unlinks[v].ok}}

FailedStitchPaths ==
  {concats[c].output : c \in {e \in DOMAIN concats : concats[e].outcome = "failed"}}

\* C27: when process returns normally every returned path exists on disk,
\* and the list holds neither a deleted segment path nor a stitched path
\* whose concat failed.
C27_ReturnedPathsExist ==
  pc = "done" =>
    \A k \in DOMAIN result :
      /\ result[k] \in disk
      /\ result[k] \notin DeletedPaths
      /\ result[k] \notin FailedStitchPaths

\* the same for the runs whose segments were written to distinct paths
C27_ExistWhenPathsDistinct ==
  (pc = "done" /\ C3_UniquePaths) =>
    \A k \in DOMAIN result :
      /\ result[k] \in disk
      /\ result[k] \notin DeletedPaths
      /\ result[k] \notin FailedStitchPaths

\* the job has a background task that has not returned
HasTask(j) == \E t \in tasks : t.job_id = j

\* C28: every job created eventually reaches completed or failed; a job
\* whose task is over is never left pending or processing, and a job that
\* ended on an exception is failed with its error recorded.
C28_JobsTerminate ==
  /\ \A j \in 1 .. MaxJobs :
       (j \in DOMAIN jobs)
         ~> (j \in DOMAIN jobs /\ jobs[j].status \in Terminal)
  /\ [](\A j \in DOMAIN jobs :
          /\ ~HasTask(j) => jobs[j].status \in Terminal
          /\ jobs[j].status = Failed => jobs[j].error # None)

\* C28 witness: every job asked for was created and every task is over,
\* one job ended failed on the exception of a missing upload and one ended
\* failed on an exception raised inside splitter.process
C28_Witness ==
  /\ job_counter = MaxJobs /\ tasks = {}
  /\ \E j \in DOMAIN jobs : jobs[j].error = Some("Input file not found")
  /\ \E j \in DOMAIN jobs : jobs[j].error = Some(TranscodeError)

\* the record of a job is consistent with its status
Consistent(job) ==
  /\ job.progress \in 0 .. 100
  /\ job.status = Completed =>
       job.progress = 100 /\ job.completed_at # None /\ job.error = None
  /\ job.status = Failed =>
       job.error # None /\ job.completed_at # None /\ job.output_files = <<>>
  /\ job.status \in {Pending, Processing} =>
       job.completed_at = None /\ job.output_files = <<>>

\* C29: in every reachable state every job record is consistent: progress is
\* within 0..100, completed means progress 100, completed_at set and error
\* unset, failed means error and completed_at set and no output files,
\* pending or processing means completed_at unset and no output files; and
\* no step decreases the progress of a job.
C29_RecordConsistent ==
  /\ [](\A j \in DOMAIN jobs : Consistent(jobs[j]))
  /\ [][\A j \in DOMAIN jobs :
          j \in DOMAIN jobs' => jobs'[j].progress >= jobs[j].progress]_vars

\* C29 witness: one job is completed and one failed after its progress was
\* set to 25
C29_Witness ==
  /\ \E j \in DOMAIN jobs : jobs[j].status = Completed
  /\ \E j \in DOMAIN jobs : jobs[j].status = Failed /\ jobs[j].progress = 25

\* C30: job ids are unique and strictly increasing: each split request
\* receives the id one greater than the previous one, starting at 1; the
\* record stored under an id carries that id; a created job is never removed
\* and never overwritten by a later request; a step of the runner of job j
\* changes the record of job j only.
C30_JobIds ==
  /\ [](/\ DOMAIN jobs = 1 .. job_counter
        /\ \A j \in DOMAIN jobs : jobs[j].id = j)
  /\ [][/\ job_counter' # job_counter =>
            /\ job_counter' = job_counter + 1
            /\ ret'.body.job_id = job_counter'
            /\ DOMAIN jobs' = DOMAIN jobs \cup {job_counter'}
            /\ \A j \in DOMAIN jobs : jobs'[j] = jobs[j]
       /\ \A j \in DOMAIN jobs :
            /\ j \in DOMAIN jobs'
            /\ jobs'[j].id = jobs[j].id
            /\ jobs'[j].created_at = jobs[j].created_at
            /\ jobs'[j] # jobs[j] =>
                 /\ \E t \in tasks : t.job_id = j /\ t \notin tasks'
                 /\ \A k \in DOMAIN jobs \ {j} : jobs'[k] = jobs[k]]_vars

\* C30 witness: two requests were answered, the second with id 2, and the
\* runner of job 1 has started while job 2 is still pending
C30_Witness ==
  /\ job_counter = 2
  /\ jobs[1].id = 1 /\ jobs[2].id = 2
  /\ jobs[1].status = Processing /\ jobs[2].status = Pending

====================================================================
